---- MODULE Spec2Model ----
(***************************************************************************)
(* Model of tensorflow/lite/python/lite_v2_test_util.py: the ModelTest     *)
(* helper class.  Three specifications, one per group of helpers:          *)
(*   SpecEval    one call of _evaluateTFLiteModel, statement by statement  *)
(*   SpecDebug   one call of _assertValidDebugInfo, statement by statement *)
(*   SpecModels  the model builders, the functions of the models they      *)
(*               return and _evaluateTFLiteModelUsingSignatureDef          *)
(***************************************************************************)
EXTENDS Integers, Sequences, FiniteSets

VARIABLES
    \* ---- _evaluateTFLiteModel: arguments, locals, interpreter, outcome
    tflite_model,    \* [inputs: Seq(shape_signature), nout: Nat]
    input_data,      \* list of EagerTensors
    input_shapes,    \* NoShapes (Python None) or list of <<shape_signature, final_shape>>
    pc,              \* position in _evaluateTFLiteModel
    idx,             \* loop index of the loop being executed (0-based, as in Python)
    interpreter,     \* the local Interpreter object
    input_details,   \* local input_details
    output_details,  \* local output_details
    ops,             \* every call made on the interpreter / the test case, in order
    result,          \* the list being returned
    failure,         \* exception that ended the call ("" when none)
    \* ---- _assertValidDebugInfo
    files,           \* debug_info.files
    dpc,             \* position in _assertValidDebugInfo
    didx,            \* number of elements of debug_info.files already iterated
    file_names,      \* local set file_names
    doutcome,        \* "", "pass" or "fail"
    \* ---- model builders
    heap,            \* variables.Variable objects: Seq of values, id = position
    models,          \* objects returned by the _get*Model helpers
    last,            \* the last call: model, function, arguments, return value
    calls,           \* number of calls made so far
    stats,           \* per model: what was called on it and what it created (history)
    interpreters,    \* Interpreter objects built by _evaluateTFLiteModelUsingSignatureDef
    self_attrs       \* attributes the helpers have set on the ModelTest instance

evalVars == <<tflite_model, input_data, input_shapes, pc, idx, interpreter,
              input_details, output_details, ops, result, failure>>
debugVars == <<files, dpc, didx, file_names, doutcome>>
modelVars == <<heap, models, last, calls, stats, interpreters, self_attrs>>
vars == <<evalVars, debugVars, modelVars>>

(***************************************************************************)
(* Bounds                                                                  *)
(***************************************************************************)
MaxInputs == 2
MaxOutputs == 2
MaxShapes == 2
MaxPathLen == 2
MaxFiles == 2
MaxModels == 2
MaxCalls == 5

\* all sequences over S of length 0..n
SeqUpTo(S, n) == UNION {[1..k -> S] : k \in 0..n}

(***************************************************************************)
(* Tensors, shapes and the interpreter                                     *)
(***************************************************************************)
\* shape signatures of rank 2; -1 is an unknown dimension
Signatures == {<<-1, 2>>, <<1, 2>>, <<-1, -1>>}
FinalShapes == {<<3, 2>>, <<1, 2>>}
NoShapes == <<"None">>
NoValue == <<>>

\* EagerTensor const op holding a value; .numpy() yields the value
EagerTensor(v) == [eager |-> v]
numpy(t) == t.eager

NIn(m) == Len(m.inputs)
\* tensor indices are 0-based positions in the interpreter's tensor table:
\* inputs first, outputs after them
InputIndex(m, k) == k - 1
OutputIndex(m, j) == NIn(m) + j - 1
TensorIndices(m) == 0..(NIn(m) + m.nout - 1)

\* a dimension of -1 in the signature is materialised as 1 until resized
DefaultShape(sig) == [d \in 1..Len(sig) |-> IF sig[d] = -1 THEN 1 ELSE sig[d]]

\* Interpreter(model_content=tflite_model)
Interpreter(m) ==
    [ shapes    |-> [k \in 1..NIn(m) |-> DefaultShape(m.inputs[k])],
      allocated |-> FALSE,
      invoked   |-> FALSE,
      tensors   |-> [t \in TensorIndices(m) |-> NoValue] ]

get_input_details(it, m) ==
    [k \in 1..NIn(m) |-> [ index |-> InputIndex(m, k),
                           shape_signature |-> m.inputs[k],
                           shape |-> it.shapes[k] ]]

get_output_details(it, m) ==
    [j \in 1..m.nout |-> [ index |-> OutputIndex(m, j) ]]

\* strict=True: only unknown dimensions may be resized
StrictResizeOk(sig, final) ==
    /\ Len(sig) = Len(final)
    /\ \A d \in 1..Len(sig) : sig[d] = -1 \/ sig[d] = final[d]

resize_tensor_input(it, m, index, final) ==
    [it EXCEPT !.shapes = [k \in 1..NIn(m) |->
                             IF InputIndex(m, k) = index THEN final ELSE @[k]],
               !.allocated = FALSE]

allocate_tensors(it) == [it EXCEPT !.allocated = TRUE]

set_tensor(it, index, value) == [it EXCEPT !.tensors[index] = value]

RECURSIVE Flatten(_)
Flatten(s) == IF s = <<>> THEN <<>> ELSE Head(s) \o Flatten(Tail(s))

\* the value the graph computes for output j: a term over the input tensors
Compute(it, m, j) ==
    <<j>> \o Flatten([k \in 1..NIn(m) |->
                        <<Len(it.tensors[InputIndex(m, k)])>>
                          \o it.tensors[InputIndex(m, k)]])

invoke(it, m) ==
    [it EXCEPT !.invoked = TRUE,
               !.tensors = [t \in TensorIndices(m) |->
                              IF \E j \in 1..m.nout : OutputIndex(m, j) = t
                              THEN Compute(it, m, t - NIn(m) + 1)
                              ELSE @[t]]]

get_tensor(it, index) == it.tensors[index]

\* one entry of the call log: the call, the tensor index it names (-1 when none),
\* its value argument or return value, and the input_shapes entry it belongs to
\* (-1 when none)
Op(name, index, val, entry) == [op |-> name, index |-> index, val |-> val, entry |-> entry]

(***************************************************************************)
(* _evaluateTFLiteModel                                                    *)
(***************************************************************************)
Models == {[inputs |-> ins, nout |-> n] :
             ins \in SeqUpTo(Signatures, MaxInputs), n \in 0..MaxOutputs}
\* input_data[i] holds the value 101 + i (i 0-based): distinct per position
InputDatas == {[i \in 1..n |-> EagerTensor(<<100 + i>>)] : n \in 0..(MaxInputs + 1)}
InputShapes == {NoShapes} \cup SeqUpTo(Signatures \X FinalShapes, MaxShapes)

NoCall == [model |-> 0, fn |-> "", x |-> <<>>, y |-> <<>>, ret |-> <<>>]

ModelsIdle ==
    /\ heap = <<>>
    /\ models = <<>>
    /\ last = NoCall
    /\ calls = 0
    /\ stats = <<>>
    /\ interpreters = <<>>
    /\ self_attrs = {}

DebugIdle ==
    /\ files = <<>>
    /\ dpc = "idle"
    /\ didx = 0
    /\ file_names = {}
    /\ doutcome = ""

EvalIdle ==
    /\ tflite_model = [inputs |-> <<>>, nout |-> 0]
    /\ input_data = <<>>
    /\ input_shapes = NoShapes
    /\ pc = "idle"
    /\ idx = 0
    /\ interpreter = <<>>
    /\ input_details = <<>>
    /\ output_details = <<>>
    /\ ops = <<>>
    /\ result = <<>>
    /\ failure = ""

InitEval ==
    /\ tflite_model \in Models
    /\ input_data \in InputDatas
    /\ input_shapes \in InputShapes
    /\ pc = "load"
    /\ idx = 0
    /\ interpreter = <<>>
    /\ input_details = <<>>
    /\ output_details = <<>>
    /\ ops = <<>>
    /\ result = <<>>
    /\ failure = ""
    /\ DebugIdle
    /\ ModelsIdle

\* Python truthiness of input_shapes: None and [] are both false
Truthy(shapes) == shapes # NoShapes /\ Len(shapes) > 0

\* an uncaught exception ends the call
Raise(exc) ==
    /\ pc' = "failed"
    /\ failure' = exc

\* line 51
Load ==
    /\ pc = "load"
    /\ interpreter' = Interpreter(tflite_model)
    /\ ops' = Append(ops, Op("Interpreter", -1, <<>>, -1))
    /\ pc' = "get_input_details"
    /\ UNCHANGED <<tflite_model, input_data, input_shapes, idx, input_details,
                   output_details, result, failure, debugVars, modelVars>>

\* line 52, then the test of line 53 and the loop head of line 54
GetInputDetails ==
    /\ pc = "get_input_details"
    /\ input_details' = get_input_details(interpreter, tflite_model)
    /\ ops' = Append(ops, Op("get_input_details", -1, <<>>, -1))
    /\ idx' = 0
    /\ pc' = IF Truthy(input_shapes) THEN "assert" ELSE "allocate"
    /\ UNCHANGED <<tflite_model, input_data, input_shapes, interpreter,
                   output_details, result, failure, debugVars, modelVars>>

\* mutant of SignatureMatches: .any() where the code has .all()
SignatureMatches_any(actual, expected) ==
    \E d \in 1..Len(actual) : actual[d] = expected[d]

\* (a == b).all() on two arrays of the same length
SignatureMatches(actual, expected) ==
    \A d \in 1..Len(actual) : actual[d] = expected[d]

\* lines 55-56: self.assertTrue((input_details[idx]['shape_signature'] == shape_signature).all())
AssertSignature ==
    /\ pc = "assert"
    /\ IF idx + 1 > Len(input_details)
       THEN /\ Raise("IndexError")
            /\ UNCHANGED ops
       ELSE /\ ops' = Append(ops, Op("assertTrue", input_details[idx + 1].index,
                                       input_shapes[idx + 1][1], idx))
            /\ IF SignatureMatches(input_details[idx + 1].shape_signature,
                                   input_shapes[idx + 1][1])
               THEN /\ pc' = "resize"
                    /\ UNCHANGED failure
               ELSE Raise("AssertionError")
    /\ UNCHANGED <<tflite_model, input_data, input_shapes, idx, interpreter,
                   input_details, output_details, result, debugVars, modelVars>>

\* mutant of Resize: allocate_tensors called inside the loop, after each resize
Resize_alloc_in_loop ==
    /\ pc = "resize"
    /\ LET index == input_details[idx + 1].index
           final == input_shapes[idx + 1][2]
       IN  IF StrictResizeOk(input_details[idx + 1].shape_signature, final)
           THEN /\ interpreter' = allocate_tensors(
                                     resize_tensor_input(interpreter, tflite_model,
                                                         index, final))
                /\ ops' = ops \o <<Op("resize_tensor_input", index, final, idx),
                                   Op("allocate_tensors", -1, <<>>, -1)>>
                /\ idx' = idx + 1
                /\ pc' = IF idx + 1 < Len(input_shapes) THEN "assert" ELSE "allocate"
                /\ UNCHANGED failure
           ELSE /\ ops' = Append(ops, Op("resize_tensor_input", index, final, idx))
                /\ Raise("ValueError")
                /\ UNCHANGED <<interpreter, idx>>
    /\ UNCHANGED <<tflite_model, input_data, input_shapes, input_details,
                   output_details, result, debugVars, modelVars>>

\* lines 57-58, then the loop head of line 54
Resize ==
    /\ pc = "resize"
    /\ LET index == input_details[idx + 1].index
           final == input_shapes[idx + 1][2]
       IN  /\ ops' = Append(ops, Op("resize_tensor_input", index, final, idx))
           /\ IF StrictResizeOk(input_details[idx + 1].shape_signature, final)
              THEN /\ interpreter' = resize_tensor_input(interpreter, tflite_model,
                                                         index, final)
                   /\ idx' = idx + 1
                   /\ pc' = IF idx + 1 < Len(input_shapes) THEN "assert" ELSE "allocate"
                   /\ UNCHANGED failure
              ELSE /\ Raise("ValueError")
                   /\ UNCHANGED <<interpreter, idx>>
    /\ UNCHANGED <<tflite_model, input_data, input_shapes, input_details,
                   output_details, result, debugVars, modelVars>>

\* line 59
Allocate ==
    /\ pc = "allocate"
    /\ interpreter' = allocate_tensors(interpreter)
    /\ ops' = Append(ops, Op("allocate_tensors", -1, <<>>, -1))
    /\ pc' = "get_output_details"
    /\ UNCHANGED <<tflite_model, input_data, input_shapes, idx, input_details,
                   output_details, result, failure, debugVars, modelVars>>

\* line 61
GetOutputDetails ==
    /\ pc = "get_output_details"
    /\ output_details' = get_output_details(interpreter, tflite_model)
    /\ ops' = Append(ops, Op("get_output_details", -1, <<>>, -1))
    /\ pc' = "get_input_details2"
    /\ UNCHANGED <<tflite_model, input_data, input_shapes, idx, interpreter,
                   input_details, result, failure, debugVars, modelVars>>

\* number of pairs zip(a, b) yields
ZipLen(a, b) == IF Len(a) < Len(b) THEN Len(a) ELSE Len(b)

\* line 62, then the loop head of line 64
GetInputDetails2 ==
    /\ pc = "get_input_details2"
    /\ input_details' = get_input_details(interpreter, tflite_model)
    /\ ops' = Append(ops, Op("get_input_details", -1, <<>>, -1))
    /\ idx' = 0
    /\ pc' = IF ZipLen(get_input_details(interpreter, tflite_model), input_data) > 0
             THEN "set_tensor" ELSE "invoke"
    /\ UNCHANGED <<tflite_model, input_data, input_shapes, interpreter,
                   output_details, result, failure, debugVars, modelVars>>

\* line 65, then the loop head of line 64
SetTensor ==
    /\ pc = "set_tensor"
    /\ LET index == input_details[idx + 1].index
           data  == numpy(input_data[idx + 1])
       IN  /\ interpreter' = set_tensor(interpreter, index, data)
           /\ ops' = Append(ops, Op("set_tensor", index, data, -1))
    /\ idx' = idx + 1
    /\ pc' = IF idx + 1 < ZipLen(input_details, input_data) THEN "set_tensor" ELSE "invoke"
    /\ UNCHANGED <<tflite_model, input_data, input_shapes, input_details,
                   output_details, result, failure, debugVars, modelVars>>

\* line 66, then the head of the comprehension of lines 67-69
Invoke ==
    /\ pc = "invoke"
    /\ interpreter' = invoke(interpreter, tflite_model)
    /\ ops' = Append(ops, Op("invoke", -1, <<>>, -1))
    /\ idx' = 0
    /\ pc' = IF Len(output_details) > 0 THEN "get_tensor" ELSE "done"
    /\ UNCHANGED <<tflite_model, input_data, input_shapes, input_details,
                   output_details, result, failure, debugVars, modelVars>>

\* mutant of GetTensor: reads the tensor at the position in output_details
\* instead of at details['index']
GetTensor_by_position ==
    /\ pc = "get_tensor"
    /\ result' = Append(result, get_tensor(interpreter, idx))
    /\ ops' = Append(ops, Op("get_tensor", idx, get_tensor(interpreter, idx), -1))
    /\ idx' = idx + 1
    /\ pc' = IF idx + 1 < Len(output_details) THEN "get_tensor" ELSE "done"
    /\ UNCHANGED <<tflite_model, input_data, input_shapes, interpreter, input_details,
                   output_details, failure, debugVars, modelVars>>

\* line 68, one element of the comprehension
GetTensor ==
    /\ pc = "get_tensor"
    /\ LET index == output_details[idx + 1].index
       IN  /\ result' = Append(result, get_tensor(interpreter, index))
           /\ ops' = Append(ops, Op("get_tensor", index,
                                 get_tensor(interpreter, index), -1))
    /\ idx' = idx + 1
    /\ pc' = IF idx + 1 < Len(output_details) THEN "get_tensor" ELSE "done"
    /\ UNCHANGED <<tflite_model, input_data, input_shapes, interpreter, input_details,
                   output_details, failure, debugVars, modelVars>>

NextEval ==
    \/ Load
    \/ GetInputDetails
    \/ AssertSignature
    \/ Resize
    \/ Allocate
    \/ GetOutputDetails
    \/ GetInputDetails2
    \/ SetTensor
    \/ Invoke
    \/ GetTensor

SpecEval == InitEval /\ [][NextEval]_vars

(***************************************************************************)
(* _assertValidDebugInfo                                                   *)
(***************************************************************************)
\* a path is a string, modelled as the sequence of its pieces: the separator
\* "/" and separator-free pieces; two strings are equal iff their pieces are
PathPieces == {"/", "lite_v2_test.py", "lite_test.py", "d"}
Paths == SeqUpTo(PathPieces, MaxPathLen)

\* position of the last "/" at or before n, 0 when there is none: p.rfind('/') + 1
RECURSIVE LastSep(_, _)
LastSep(p, n) == IF n = 0 THEN 0 ELSE IF p[n] = "/" THEN n ELSE LastSep(p, n - 1)

\* os.path.basename: what follows the last "/"
basename(p) == SubSeq(p, LastSep(p, Len(p)) + 1, Len(p))

InitDebug ==
    /\ files \in SeqUpTo(Paths, MaxFiles)
    /\ dpc = "start"
    /\ didx = 0
    /\ file_names = {}
    /\ doutcome = ""
    /\ EvalIdle
    /\ ModelsIdle

\* line 143, then the loop head of line 144
NewFileNames ==
    /\ dpc = "start"
    /\ file_names' = {}
    /\ didx' = 0
    /\ dpc' = IF Len(files) > 0 THEN "add" ELSE "assertIn"
    /\ UNCHANGED <<files, doutcome, evalVars, modelVars>>

\* mutant of AddBasename: the path is added as it is, without os.path.basename
AddBasename_whole_path ==
    /\ dpc = "add"
    /\ file_names' = file_names \cup {files[didx + 1]}
    /\ didx' = didx + 1
    /\ dpc' = IF didx + 1 < Len(files) THEN "add" ELSE "assertIn"
    /\ UNCHANGED <<files, doutcome, evalVars, modelVars>>

\* line 145, then the loop head of line 144
AddBasename ==
    /\ dpc = "add"
    /\ file_names' = file_names \cup {basename(files[didx + 1])}
    /\ didx' = didx + 1
    /\ dpc' = IF didx + 1 < Len(files) THEN "add" ELSE "assertIn"
    /\ UNCHANGED <<files, doutcome, evalVars, modelVars>>

\* line 148
AssertIn ==
    /\ dpc = "assertIn"
    /\ IF <<"lite_v2_test.py">> \in file_names
       THEN /\ dpc' = "assertNotIn"
            /\ UNCHANGED doutcome
       ELSE /\ dpc' = "done"
            /\ doutcome' = "fail"
    /\ UNCHANGED <<files, didx, file_names, evalVars, modelVars>>

\* line 149
AssertNotIn ==
    /\ dpc = "assertNotIn"
    /\ dpc' = "done"
    /\ doutcome' = IF <<"lite_test.py">> \notin file_names THEN "pass" ELSE "fail"
    /\ UNCHANGED <<files, didx, file_names, evalVars, modelVars>>

NextDebug ==
    \/ NewFileNames
    \/ AddBasename
    \/ AssertIn
    \/ AssertNotIn

SpecDebug == InitDebug /\ [][NextDebug]_vars

(***************************************************************************)
(* The model builders and the functions of the models they return          *)
(***************************************************************************)
\* tensors: a scalar is <<v>>, a matrix is the sequence of its rows
VarRows == 1
VarCols == 10
zeros(rows, cols) == [r \in 1..rows |-> [c \in 1..cols |-> 0]]
ScalarMul(a, b) == <<a[1] * b[1]>>
ScalarAdd(a, b) == <<a[1] + b[1]>>
ScalarSub(a, b) == <<a[1] - b[1]>>
MatrixAdd(a, b) == [r \in 1..Len(a) |-> [c \in 1..Len(a[r]) |-> a[r][c] + b[r][c]]]

\* variables.Variable(v): a new object on the heap; its id is its position
NewVariable(h, v) == Append(h, v)

\* an object returned by a builder: its class and its attributes, each None
\* (0) or the id of a Variable
None == 0
Object(kind) == [kind |-> kind, v1 |-> None, v2 |-> None, var |-> None,
                 y |-> None, z |-> None]

\* arguments the tests pass
Scalars == {<<1>>, <<4>>}
AddInputs == {[r \in 1..VarRows |-> [c \in 1..VarCols |-> 1]],
              [r \in 1..VarRows |-> [c \in 1..VarCols |-> IF c = 3 THEN 5 ELSE 0]]}
AssignValues == {<<5>>}
Functions == {"f", "assign", "assign_add", "add", "sub", "mul_add"}

NoStats == [ncalls  |-> [fn \in Functions |-> 0],
            created |-> [a \in {"y", "z"} |-> 0],
            added   |-> [x \in AddInputs |-> 0]]

Call(m, fn, x, y, ret) == [model |-> m, fn |-> fn, x |-> x, y |-> y, ret |-> ret]

Counted(m, fn) == [stats EXCEPT ![m].ncalls[fn] = @ + 1]

InitModels ==
    /\ ModelsIdle
    /\ EvalIdle
    /\ DebugIdle

CanCall == calls < MaxCalls
CanBuild == CanCall /\ Len(models) < MaxModels

\* lines 89-94
GetSimpleVariableModel ==
    /\ CanBuild
    /\ heap' = NewVariable(NewVariable(heap, <<3>>), <<2>>)
    /\ models' = Append(models, [Object("AutoTrackable") EXCEPT
                                   !.v1 = Len(heap) + 1, !.v2 = Len(heap) + 2])
    /\ stats' = Append(stats, NoStats)
    /\ last' = Call(0, "_getSimpleVariableModel", <<>>, <<>>, <<>>)
    /\ calls' = calls + 1
    /\ UNCHANGED <<interpreters, self_attrs, evalVars, debugVars>>

\* mutant of f: the product of the initial values, folded at build time
f_constant_folded(m, x) ==
    /\ CanCall
    /\ models[m].kind = "AutoTrackable"
    /\ last' = Call(m, "f", x, <<>>, ScalarMul(<<6>>, x))
    /\ stats' = Counted(m, "f")
    /\ calls' = calls + 1
    /\ UNCHANGED <<heap, models, interpreters, self_attrs, evalVars, debugVars>>

\* line 93: root.f = lambda x: root.v1 * root.v2 * x
f(m, x) ==
    /\ CanCall
    /\ models[m].kind = "AutoTrackable"
    /\ last' = Call(m, "f", x, <<>>,
                    ScalarMul(ScalarMul(heap[models[m].v1], heap[models[m].v2]), x))
    /\ stats' = Counted(m, "f")
    /\ calls' = calls + 1
    /\ UNCHANGED <<heap, models, interpreters, self_attrs, evalVars, debugVars>>

\* Variable.assign on root.v1 or root.v2, as a test may do after building
assign(m, attr, v) ==
    /\ CanCall
    /\ models[m].kind = "AutoTrackable"
    /\ heap' = [heap EXCEPT ![models[m][attr]] = v]
    /\ last' = Call(m, "assign", v, <<>>, v)
    /\ stats' = Counted(m, "assign")
    /\ calls' = calls + 1
    /\ UNCHANGED <<models, interpreters, self_attrs, evalVars, debugVars>>

\* mutant of _getSimpleModelWithVariables: var is one class-level Variable,
\* shared by every instance
GetSimpleModelWithVariables_shared_var ==
    /\ CanBuild
    /\ LET same == {i \in 1..Len(models) : models[i].kind = "SimpleModelWithOneVariable"}
       IN  IF same = {}
           THEN /\ heap' = NewVariable(heap, zeros(VarRows, VarCols))
                /\ models' = Append(models, [Object("SimpleModelWithOneVariable")
                                               EXCEPT !.var = Len(heap) + 1])
           ELSE /\ heap' = heap
                /\ models' = Append(models, [Object("SimpleModelWithOneVariable")
                                    EXCEPT !.var = models[CHOOSE i \in same : TRUE].var])
    /\ stats' = Append(stats, NoStats)
    /\ last' = Call(0, "_getSimpleModelWithVariables", <<>>, <<>>, <<>>)
    /\ calls' = calls + 1
    /\ UNCHANGED <<interpreters, self_attrs, evalVars, debugVars>>

\* lines 96-110, with __init__ of lines 101-103
GetSimpleModelWithVariables ==
    /\ CanBuild
    /\ heap' = NewVariable(heap, zeros(VarRows, VarCols))
    /\ models' = Append(models, [Object("SimpleModelWithOneVariable")
                                   EXCEPT !.var = Len(heap) + 1])
    /\ stats' = Append(stats, NoStats)
    /\ last' = Call(0, "_getSimpleModelWithVariables", <<>>, <<>>, <<>>)
    /\ calls' = calls + 1
    /\ UNCHANGED <<interpreters, self_attrs, evalVars, debugVars>>

\* mutant of assign_add: assign where the code has assign_add
assign_add_overwrites(m, x) ==
    /\ CanCall
    /\ models[m].kind = "SimpleModelWithOneVariable"
    /\ heap' = [heap EXCEPT ![models[m].var] = x]
    /\ last' = Call(m, "assign_add", x, <<>>, x)
    /\ stats' = [Counted(m, "assign_add") EXCEPT ![m].added[x] = @ + 1]
    /\ calls' = calls + 1
    /\ UNCHANGED <<models, interpreters, self_attrs, evalVars, debugVars>>

\* lines 105-108
assign_add(m, x) ==
    /\ CanCall
    /\ models[m].kind = "SimpleModelWithOneVariable"
    /\ heap' = [heap EXCEPT ![models[m].var] = MatrixAdd(@, x)]
    /\ last' = Call(m, "assign_add", x, <<>>, MatrixAdd(heap[models[m].var], x))
    /\ stats' = [Counted(m, "assign_add") EXCEPT ![m].added[x] = @ + 1]
    /\ calls' = calls + 1
    /\ UNCHANGED <<models, interpreters, self_attrs, evalVars, debugVars>>

\* lines 112-139, with __init__ of lines 117-119
GetMultiFunctionModel ==
    /\ CanBuild
    /\ models' = Append(models, Object("BasicModel"))
    /\ stats' = Append(stats, NoStats)
    /\ last' = Call(0, "_getMultiFunctionModel", <<>>, <<>>, <<>>)
    /\ calls' = calls + 1
    /\ UNCHANGED <<heap, interpreters, self_attrs, evalVars, debugVars>>

\* lines 121-125
add(m, x) ==
    /\ CanCall
    /\ models[m].kind = "BasicModel"
    /\ IF models[m].y = None
       THEN /\ heap' = NewVariable(heap, <<2>>)
            /\ models' = [models EXCEPT ![m].y = Len(heap) + 1]
            /\ stats' = [Counted(m, "add") EXCEPT ![m].created["y"] = @ + 1]
       ELSE /\ UNCHANGED <<heap, models>>
            /\ stats' = Counted(m, "add")
    /\ last' = Call(m, "add", x, <<>>, ScalarAdd(x, heap'[models'[m].y]))
    /\ calls' = calls + 1
    /\ UNCHANGED <<interpreters, self_attrs, evalVars, debugVars>>

\* mutant of sub: self.z is created on every call
sub_always_creates(m, x) ==
    /\ CanCall
    /\ models[m].kind = "BasicModel"
    /\ heap' = NewVariable(heap, <<3>>)
    /\ models' = [models EXCEPT ![m].z = Len(heap) + 1]
    /\ stats' = [Counted(m, "sub") EXCEPT ![m].created["z"] = @ + 1]
    /\ last' = Call(m, "sub", x, <<>>, ScalarSub(x, heap'[models'[m].z]))
    /\ calls' = calls + 1
    /\ UNCHANGED <<interpreters, self_attrs, evalVars, debugVars>>

\* lines 127-131
sub(m, x) ==
    /\ CanCall
    /\ models[m].kind = "BasicModel"
    /\ IF models[m].z = None
       THEN /\ heap' = NewVariable(heap, <<3>>)
            /\ models' = [models EXCEPT ![m].z = Len(heap) + 1]
            /\ stats' = [Counted(m, "sub") EXCEPT ![m].created["z"] = @ + 1]
       ELSE /\ UNCHANGED <<heap, models>>
            /\ stats' = Counted(m, "sub")
    /\ last' = Call(m, "sub", x, <<>>, ScalarSub(x, heap'[models'[m].z]))
    /\ calls' = calls + 1
    /\ UNCHANGED <<interpreters, self_attrs, evalVars, debugVars>>

\* lines 133-137
mul_add(m, x, y) ==
    /\ CanCall
    /\ models[m].kind = "BasicModel"
    /\ IF models[m].z = None
       THEN /\ heap' = NewVariable(heap, <<3>>)
            /\ models' = [models EXCEPT ![m].z = Len(heap) + 1]
            /\ stats' = [Counted(m, "mul_add") EXCEPT ![m].created["z"] = @ + 1]
       ELSE /\ UNCHANGED <<heap, models>>
            /\ stats' = Counted(m, "mul_add")
    /\ last' = Call(m, "mul_add", x, y,
                    ScalarAdd(ScalarMul(x, heap'[models'[m].z]), y))
    /\ calls' = calls + 1
    /\ UNCHANGED <<interpreters, self_attrs, evalVars, debugVars>>

\* the signature runner of the converted assign_add model: the interpreter
\* holds its own copy of var, adds x to it and returns it
RunAssignAdd(it, x) == [it EXCEPT !.var = MatrixAdd(@, x)]

\* lines 85-87, on the converted SimpleModelWithOneVariable, method assign_add
EvaluateTFLiteModelUsingSignatureDef(x) ==
    /\ CanCall
    /\ LET it == RunAssignAdd([var |-> zeros(VarRows, VarCols)], x)
       IN  /\ interpreters' = Append(interpreters, it)
           /\ last' = Call(0, "_evaluateTFLiteModelUsingSignatureDef", x, <<>>, it.var)
    /\ calls' = calls + 1
    /\ UNCHANGED <<heap, models, stats, self_attrs, evalVars, debugVars>>

NextModels ==
    \/ GetSimpleVariableModel
    \/ GetSimpleModelWithVariables
    \/ GetMultiFunctionModel
    \/ \E m \in 1..Len(models), x \in Scalars : f(m, x)
    \/ \E m \in 1..Len(models), a \in {"v1", "v2"}, v \in AssignValues : assign(m, a, v)
    \/ \E m \in 1..Len(models), x \in AddInputs : assign_add(m, x)
    \/ \E m \in 1..Len(models), x \in Scalars : add(m, x)
    \/ \E m \in 1..Len(models), x \in Scalars : sub(m, x)
    \/ \E m \in 1..Len(models), x \in Scalars, y \in Scalars : mul_add(m, x, y)
    \/ \E x \in AddInputs : EvaluateTFLiteModelUsingSignatureDef(x)

SpecModels == InitModels /\ [][NextModels]_vars

(***************************************************************************)
(* Properties of _evaluateTFLiteModel (checked under SpecEval)             *)
(***************************************************************************)
OpsAt(name) == {i \in 1..Len(ops) : ops[i].op = name}
Returned == pc = "done"
NShapeEntries == IF Truthy(input_shapes) THEN Len(input_shapes) ELSE 0

\* the assertion logged at position i compared a signature that differs, in
\* some element, from the model's signature of the input at that entry
MismatchAt(i) ==
    /\ ops[i].op = "assertTrue"
    /\ \E d \in 1..2 : tflite_model.inputs[ops[i].entry + 1][d] # ops[i].val[d]

\* C1: a shape-signature mismatch at entry k fails the call at once: the
\* failed assertion is the last call ever made (no resize for entry k or a
\* later one, no allocate_tensors, set_tensor, invoke or get_tensor), the
\* call ends with an AssertionError and no output list is returned.
C1_MismatchFailsImmediately ==
    \A i \in 1..Len(ops) :
        MismatchAt(i) =>
            /\ i = Len(ops)
            /\ pc = "failed"
            /\ failure = "AssertionError"
            /\ result = <<>>
            /\ \A r \in OpsAt("resize_tensor_input") : ops[r].entry < ops[i].entry
            /\ OpsAt("allocate_tensors") \cup OpsAt("set_tensor")
                 \cup OpsAt("invoke") \cup OpsAt("get_tensor") = {}

\* a mismatch at the second entry, after the first entry was resized
C1_Witness ==
    /\ pc = "failed"
    /\ Len(ops) > 0
    /\ MismatchAt(Len(ops))
    /\ ops[Len(ops)].entry = 1
    /\ OpsAt("resize_tensor_input") # {}

\* C2: a successful run makes its calls in this order: the interpreter is
\* loaded first; one resize_tensor_input per input_shapes entry, each right
\* after its own signature assertion, all before allocate_tensors;
\* allocate_tensors exactly once and before every set_tensor; every
\* set_tensor before invoke; invoke exactly once; every get_tensor after it.
C2_CallOrder ==
    Returned =>
        /\ ops[1].op = "Interpreter"
        /\ OpsAt("Interpreter") = {1}
        /\ Cardinality(OpsAt("resize_tensor_input")) = NShapeEntries
        /\ \A e \in 0..(NShapeEntries - 1) :
              \E r \in OpsAt("resize_tensor_input") :
                  /\ ops[r].entry = e
                  /\ ops[r - 1].op = "assertTrue"
                  /\ ops[r - 1].entry = e
        /\ Cardinality(OpsAt("allocate_tensors")) = 1
        /\ Cardinality(OpsAt("invoke")) = 1
        /\ \A a \in OpsAt("allocate_tensors"), v \in OpsAt("invoke") :
              /\ \A r \in OpsAt("resize_tensor_input") : r < a
              /\ \A t \in OpsAt("set_tensor") : a < t /\ t < v
              /\ \A g \in OpsAt("get_tensor") : v < g

\* a successful run with two resizes, two set_tensor and two get_tensor
C2_Witness ==
    /\ Returned
    /\ Cardinality(OpsAt("resize_tensor_input")) = 2
    /\ Cardinality(OpsAt("set_tensor")) = 2
    /\ Cardinality(OpsAt("get_tensor")) = 2

\* C3: once invoke has been called, every input tensor of the model was fed
\* exactly once, with its own element of input_data, whatever the lengths
\* of input_data and of the model's input list.
C3_EveryInputFed ==
    OpsAt("invoke") # {} =>
        \A k \in 1..NIn(tflite_model) :
            /\ k <= Len(input_data)
            /\ Cardinality({t \in OpsAt("set_tensor") :
                              ops[t].index = InputIndex(tflite_model, k)}) = 1
            /\ \A t \in OpsAt("set_tensor") :
                  ops[t].index = InputIndex(tflite_model, k) =>
                      /\ ops[t].val = numpy(input_data[k])
                      /\ \A v \in OpsAt("invoke") : t < v

\* positions (1-based, ascending) of the inputs that have an unknown dimension
HasUnknownDim(sig) == \E d \in 1..Len(sig) : sig[d] = -1
RECURSIVE UnknownInputsFrom(_, _)
UnknownInputsFrom(m, k) ==
    IF k > NIn(m) THEN <<>>
    ELSE (IF HasUnknownDim(m.inputs[k]) THEN <<k>> ELSE <<>>)
           \o UnknownInputsFrom(m, k + 1)
UnknownInputs(m) == UnknownInputsFrom(m, 1)

\* the caller passes input_shapes as documented: one entry per input with an
\* unknown dimension, in order, each carrying that input's shape signature
ShapesAsDocumented ==
    /\ Truthy(input_shapes)
    /\ Len(input_shapes) = Len(UnknownInputs(tflite_model))
    /\ \A k \in 1..Len(input_shapes) :
          input_shapes[k][1] = tflite_model.inputs[UnknownInputs(tflite_model)[k]]

\* C4: with input_shapes as documented, entry k of input_shapes is checked
\* against, and resizes, the k-th input tensor that has an unknown dimension;
\* inputs whose dimensions are all known are neither checked nor resized.
C4_EntriesAddressUnknownInputs ==
    ShapesAsDocumented =>
        \A i \in OpsAt("assertTrue") \cup OpsAt("resize_tensor_input") :
            /\ ops[i].entry + 1 <= Len(UnknownInputs(tflite_model))
            /\ ops[i].index =
                 InputIndex(tflite_model,
                            UnknownInputs(tflite_model)[ops[i].entry + 1])

\* C7: a successful run returns one element per output tensor, in the order
\* of get_output_details: element j is what get_tensor read, after the
\* single invoke, at the index of output j, i.e. the value invoke computed
\* for output j.
C7_OneResultPerOutput ==
    Returned =>
        /\ Len(result) = tflite_model.nout
        /\ Cardinality(OpsAt("get_tensor")) = tflite_model.nout
        /\ Cardinality(OpsAt("invoke")) = 1
        /\ Len(output_details) = tflite_model.nout
        /\ \A a \in OpsAt("allocate_tensors"), o \in OpsAt("get_output_details") : a < o
        /\ \A j \in 1..tflite_model.nout :
              /\ result[j] = Compute(interpreter, tflite_model, j)
              /\ \A v \in OpsAt("invoke") :
                    /\ v + j <= Len(ops)
                    /\ ops[v + j] = Op("get_tensor", output_details[j].index,
                                       result[j], -1)
              /\ output_details[j].index = OutputIndex(tflite_model, j)

\* two outputs read back from a model with two fed inputs
C7_Witness ==
    /\ Returned
    /\ Len(result) = 2
    /\ result[1] # result[2]
    /\ Cardinality(OpsAt("set_tensor")) = 2

(***************************************************************************)
(* Properties of _assertValidDebugInfo (checked under SpecDebug)           *)
(***************************************************************************)
\* the last path component of p is the file name n: p ends with n, and n is
\* the whole path or follows a separator
LastComponentIs(p, n) ==
    /\ Len(p) >= 1
    /\ p[Len(p)] = n
    /\ n # "/"
    /\ Len(p) = 1 \/ p[Len(p) - 1] = "/"
SomeFileNamed(n) == \E i \in 1..Len(files) : LastComponentIs(files[i], n)

\* C5: _assertValidDebugInfo passes iff some path of debug_info.files has
\* the base name lite_v2_test.py and none has the base name lite_test.py,
\* whatever the directories, the order and the duplicates; it fails for an
\* empty debug_info.files.
C5_PassIffTestFileOnly ==
    dpc = "done" =>
        /\ doutcome \in {"pass", "fail"}
        /\ doutcome = "pass" <=>
              (SomeFileNamed("lite_v2_test.py") /\ ~SomeFileNamed("lite_test.py"))
        /\ files = <<>> => doutcome = "fail"

\* passes on two paths, one of them inside a directory
C5_Witness ==
    /\ dpc = "done"
    /\ doutcome = "pass"
    /\ Len(files) = 2
    /\ \E i \in 1..2 : Len(files[i]) > 1

(***************************************************************************)
(* Properties of the model builders (checked under SpecModels)             *)
(***************************************************************************)
Attributes == {"v1", "v2", "var", "y", "z"}
Built == 1..Len(models)
OfKind(kind) == {m \in Built : models[m].kind = kind}
VariablesOf(m) == {models[m][a] : a \in Attributes} \ {None}
\* what can be observed through model m: the value of each of its attributes
View(m) == [a \in Attributes |->
              IF models[m][a] = None THEN <<>> ELSE heap[models[m][a]]]

\* C6 (state part): no two returned models share a variable, every
\* interpreter built by _evaluateTFLiteModelUsingSignatureDef starts from
\* the model's initial state (its result is that of a first run), and the
\* ModelTest instance holds no attribute set by a helper.
C6_NothingShared ==
    /\ \A m, n \in Built : m # n => VariablesOf(m) \cap VariablesOf(n) = {}
    /\ last.fn = "_evaluateTFLiteModelUsingSignatureDef" =>
          /\ last.ret = MatrixAdd(zeros(VarRows, VarCols), last.x)
          /\ interpreters[Len(interpreters)].var = last.ret
    /\ self_attrs = {}

\* C6 (step part): a call changes what is observable through a model only
\* if it is a call of a function of that very model; helper calls change
\* no existing model, and each evaluation adds a new interpreter and leaves
\* the earlier ones alone.
C6_StepIsolated ==
    /\ \A m \in Built : View(m)' # View(m) => last'.model = m
    /\ Len(interpreters') > Len(interpreters) =>
          /\ Len(interpreters') = Len(interpreters) + 1
          /\ SubSeq(interpreters', 1, Len(interpreters)) = interpreters
    /\ Len(interpreters') >= Len(interpreters)

\* C6: helper calls share no mutable state.
C6_NoSharedMutableState == [](C6_NothingShared) /\ [][C6_StepIsolated]_vars

\* two models of the same class, one updated and the other still at zero,
\* and two evaluations made
C6_Witness ==
    /\ Cardinality(OfKind("SimpleModelWithOneVariable")) = 2
    /\ \E m, n \in OfKind("SimpleModelWithOneVariable") :
          /\ View(m).var # zeros(VarRows, VarCols)
          /\ View(n).var = zeros(VarRows, VarCols)
    /\ Len(interpreters) >= 1

\* the elementwise sum of everything added to model m so far
RECURSIVE SumAdded(_, _)
SumAdded(m, xs) ==
    IF xs = {} THEN zeros(VarRows, VarCols)
    ELSE LET x == CHOOSE v \in xs : TRUE
         IN  [r \in 1..VarRows |-> [c \in 1..VarCols |->
                 stats[m].added[x] * x[r][c] + SumAdded(m, xs \ {x})[r][c]]]

\* C8 (state part): var has shape (1, 10), is all zeros before the first
\* assign_add and always equals the elementwise sum of the arguments of the
\* assign_add calls made on its model; a call returns var as it is after
\* its own addition.
C8_VarIsSum ==
    /\ \A m \in OfKind("SimpleModelWithOneVariable") :
          /\ Len(View(m).var) = 1
          /\ Len(View(m).var[1]) = 10
          /\ stats[m].ncalls["assign_add"] = 0 =>
                \A c \in 1..10 : View(m).var[1][c] = 0
          /\ View(m).var = SumAdded(m, AddInputs)
    /\ last.fn = "assign_add" =>
          /\ last.ret = View(last.model).var
          /\ last.ret = SumAdded(last.model, AddInputs)

\* C8 (step part): nothing but assign_add on the model changes its var
C8_OnlyAssignAddChanges ==
    \A m \in OfKind("SimpleModelWithOneVariable") :
        View(m)' # View(m) => last'.fn = "assign_add" /\ last'.model = m

\* C8: var of the model of _getSimpleModelWithVariables is the running sum.
C8_RunningSum == [](C8_VarIsSum) /\ [][C8_OnlyAssignAddChanges]_vars

\* three additions, not all of the same argument
C8_Witness ==
    \E m \in OfKind("SimpleModelWithOneVariable") :
        /\ stats[m].ncalls["assign_add"] = 3
        /\ \A x \in AddInputs : stats[m].added[x] >= 1
        /\ last.fn = "assign_add"

\* C9 (state part): y is None until the first add, then a variable of value
\* 2 created once; z is None until the first sub or mul_add, then a variable
\* of value 3 created once; add(x) = x + 2, sub(x) = x - 3 and
\* mul_add(x, y) = x * 3 + y.
C9_LazyVariables ==
    /\ \A m \in OfKind("BasicModel") :
          /\ models[m].y = None <=> stats[m].ncalls["add"] = 0
          /\ models[m].y = None => stats[m].created["y"] = 0
          /\ models[m].y # None =>
                heap[models[m].y] = <<2>> /\ stats[m].created["y"] = 1
          /\ models[m].z = None <=>
                stats[m].ncalls["sub"] + stats[m].ncalls["mul_add"] = 0
          /\ models[m].z = None => stats[m].created["z"] = 0
          /\ models[m].z # None =>
                heap[models[m].z] = <<3>> /\ stats[m].created["z"] = 1
    /\ last.fn = "add" => last.ret[1] = last.x[1] + 2
    /\ last.fn = "sub" => last.ret[1] = last.x[1] - 3
    /\ last.fn = "mul_add" => last.ret[1] = last.x[1] * 3 + last.y[1]

\* C9 (step part): once created, y and z are neither replaced nor modified
C9_CreatedOnce ==
    \A m \in OfKind("BasicModel") : \A a \in {"y", "z"} :
        models[m][a] # None =>
            /\ models'[m][a] = models[m][a]
            /\ heap'[models[m][a]] = heap[models[m][a]]

\* C9: the variables of the model of _getMultiFunctionModel are created
\* lazily, once, and never change.
C9_MultiFunctionModel == [](C9_LazyVariables) /\ [][C9_CreatedOnce]_vars

\* mul_add created z, sub then used it, and add created y
C9_Witness ==
    \E m \in OfKind("BasicModel") :
        /\ stats[m].ncalls["mul_add"] >= 1
        /\ stats[m].ncalls["sub"] >= 1
        /\ stats[m].ncalls["add"] >= 1
        /\ last.fn = "sub"

\* C10 (state part): v1 and v2 are 3 and 2 until assigned, and f(x) returns
\* the product of the current v1, v2 and x: 6 * x before any assignment.
C10_ProductOfVariables ==
    /\ \A m \in OfKind("AutoTrackable") :
          stats[m].ncalls["assign"] = 0 =>
              View(m).v1 = <<3>> /\ View(m).v2 = <<2>>
    /\ last.fn = "f" =>
          /\ last.ret[1] = View(last.model).v1[1] * View(last.model).v2[1] * last.x[1]
          /\ stats[last.model].ncalls["assign"] = 0 => last.ret[1] = 6 * last.x[1]

\* C10 (step part): a call of f changes no variable
C10_fChangesNothing ==
    last'.fn = "f" /\ calls' = calls + 1 => heap' = heap /\ models' = models

\* C10: f of the model of _getSimpleVariableModel multiplies, and only reads.
C10_SimpleVariableModel ==
    [](C10_ProductOfVariables) /\ [][C10_fChangesNothing]_vars

\* f called after v1 was assigned
C10_Witness ==
    /\ last.fn = "f"
    /\ stats[last.model].ncalls["assign"] >= 1
    /\ last.ret[1] # 6 * last.x[1]

====
